---- MODULE Spec2Model ----
(***************************************************************************)
(* RobotModel (compas.robots.model.robot): the link/joint tree, its caches *)
(* (_links, _joints, _adjacency, root, the links' back-references), the    *)
(* Graph Builder (_rebuild_tree), the mutations add_link, remove_link,     *)
(* add_joint, remove_joint and the chain query iter_chain.                 *)
(*                                                                         *)
(* Link and Joint objects have identity: an object is a position in        *)
(* linkObj / jointObj, a reference is that position, None is 0.            *)
(***************************************************************************)
EXTENDS Integers, Sequences, FiniteSets, TLC

\* ---------------------------------------------------------------- bounds
\* number of Link objects add_link may create in one behaviour
MaxLinkObjs == 3
\* number of Joint objects add_joint may create in one behaviour
MaxJointObjs == 2
\* number of remove_link / remove_joint calls in one behaviour
MaxRemovals == 2
\* number of Link / Joint objects of a model that is only added to
MaxGrowLinks == 4
MaxGrowJoints == 3
\* number of Link / Joint objects of a model that is edited and then queried
MaxEditLinks == 2
MaxEditJoints == 2
\* number of links of a tree whose kinematics, configurations and scale are
\* asked for, and number of scale calls made on it
MaxKinLinks == 4
MaxAddLinks == 3
MaxAddJoints == 2
MaxAddScales == 1
MaxScales == 2
\* the factors given to scale
ScaleFactors == {1, 2, 3}
\* the positions of a joint state, in tenths: 0 and 3.0
KinPositions == {0, 30}
\* number of links / joints of a list handed to the constructor
MaxListLinks == 3
MaxListJoints == 2

\* names the callers use; "a" is both a link name and a joint name
LinkNames == {"a", "b", "c"}
JointNames == {"a", "j"}
\* link names of a model that is only added to
GrowLinkNames == {"a", "b", "c", "d"}
GrowJointNames == {"j", "k", "m"}
\* joint names of the lists handed to the constructor
ListJointNames == {"a", "j", "k"}
\* the type the callers give the joint of a name: Joint.FIXED, Joint.CONTINUOUS
TypeOf(name) == IF name = "a" THEN "fixed" ELSE "continuous"

\* Python's None, as an object reference
None == 0
\* Python's None, as a name
NoName == "None"

\* ---------------------------------------------------------------- state
VARIABLES
    links,       \* self.links: list of Link references
    joints,      \* self.joints: list of Joint references
    linkObj,     \* the Link objects: name, joints (child joints), parent_joint
    jointObj,    \* the Joint objects: name, type, parent, child (names), child_link
    _links,      \* self._links: name -> Link reference
    _joints,     \* self._joints: name -> Joint reference
    _adjacency,  \* self._adjacency: name -> list of names
    root,        \* self.root: Link reference or None
    _scale_factor, \* self._scale_factor: the factor of the last scale call
    scales,      \* the factors of the whole-model scale calls made so far
    last,        \* the last call: operation, arguments, outcome, result
    removals,    \* number of remove_link / remove_joint calls made so far
    clean        \* no call so far was a removal or an add_joint that attaches
                 \* a link which has a parent joint or is above the parent

vars == <<links, joints, linkObj, jointObj, _links, _joints, _adjacency, root,
          _scale_factor, scales, last, removals, clean>>

model == <<links, joints, linkObj, jointObj, _links, _joints, _adjacency, root,
           _scale_factor>>

\* ---------------------------------------------------------------- helpers
Range(s) == {s[i] : i \in 1..Len(s)}

EmptyMap == [n \in {} |-> None]

\* d[k] = v
Put(d, k, v) == [n \in DOMAIN d \cup {k} |-> IF n = k THEN v ELSE d[n]]

\* del d[k]
Del(d, k) == [n \in DOMAIN d \ {k} |-> d[n]]

\* d.get(k, None)
Get(d, k) == IF k \in DOMAIN d THEN d[k] ELSE None

NoDuplicate(names) ==
    \A i \in 1..Len(names), k \in 1..Len(names) : names[i] = names[k] => i = k

\* the sequences over S of length at most n
SeqsUpTo(S, n) == UNION {[1..k -> S] : k \in 0..n}

Max(S) == CHOOSE x \in S : \A y \in S : y <= x

Min(S) == CHOOSE x \in S : \A y \in S : x <= y

\* [joint.name for joint in js]
JointNamesOf(jo, js) == [i \in 1..Len(js) |-> jo[js[i]].name]

\* [l.name for l in self.links]
LinkNamesOf(lo, ls) == [i \in 1..Len(ls) |-> lo[ls[i]].name]

NewLink(name) == [name |-> name, joints |-> <<>>, parent_joint |-> None]

\* a Joint: limit is <<>> or <<lower, upper>>, mimic is <<>> or
\* <<joint, multiplier, offset>>, scaled lists the factors Joint.scale was
\* called with
NewJoint(name, type, parent, child) ==
    [name |-> name, type |-> type, parent |-> parent, child |-> child,
     child_link |-> None, limit |-> <<>>, mimic |-> <<>>, scaled |-> <<>>]

RECURSIVE GCD(_, _)
GCD(a, b) == IF b = 0 THEN a ELSE GCD(b, a % b)

\* the number n / d (d > 0, n >= 0) in lowest terms
Rat(n, d) == [n |-> n \div GCD(n, d), d |-> d \div GCD(n, d)]

\* x / y
RatDiv(x, y) == Rat(x.n * y.d, x.d * y.n)

\* x * y
RatMul(x, y) == Rat(x.n * y.n, x.d * y.d)

\* 1.
One == Rat(1, 1)

\* self._scale_factor before __init__ has assigned it
Unset == [n |-> 0, d |-> 1]

\* ---------------------------------------------------------------- Graph Builder
\* find_children_joints: the joints of self.joints whose parent is the name
find_children_joints(js, jo, name) ==
    SelectSeq(js, LAMBDA j : jo[j].parent = name)

\* find_parent_joint: the first joint of self.joints whose child is the name
find_parent_joint(js, jo, name) ==
    LET hits == {i \in 1..Len(js) : jo[js[i]].child = name}
    IN  IF hits = {} THEN None ELSE js[Min(hits)]

\* the Link objects after the first loop of _rebuild_tree
RebuiltLinkObj(ls, js, lo, jo) ==
    [l \in DOMAIN lo |->
        IF l \in Range(ls)
        THEN [lo[l] EXCEPT !.joints = find_children_joints(js, jo, lo[l].name),
                           !.parent_joint = find_parent_joint(js, jo, lo[l].name)]
        ELSE lo[l]]

\* self._links after _rebuild_tree: the last link of the list wins a name
RebuiltLinks(ls, lo) ==
    [n \in {lo[l].name : l \in Range(ls)} |->
        ls[Max({i \in 1..Len(ls) : lo[ls[i]].name = n})]]

\* self.root after _rebuild_tree: the last link without parent joint, or the
\* root as it was when every link has a parent joint
RebuiltRootLeaf(ls, lo2, r) ==
    LET free == {i \in 1..Len(ls) : lo2[ls[i]].joints = <<>>}
    IN  IF free = {} THEN r ELSE ls[Max(free)]

RebuiltRoot(ls, lo2, r) ==
    LET free == {i \in 1..Len(ls) : lo2[ls[i]].parent_joint = None}
    IN  IF free = {} THEN r ELSE ls[Max(free)]

\* the Joint objects after the second loop of _rebuild_tree
RebuiltJointObj(js, jo, lk) ==
    [j \in DOMAIN jo |->
        IF j \in Range(js)
        THEN [jo[j] EXCEPT !.child_link = Get(lk, jo[j].child)]
        ELSE jo[j]]

\* self._joints after _rebuild_tree
RebuiltJoints(js, jo) ==
    [n \in {jo[j].name : j \in Range(js)} |->
        js[Max({i \in 1..Len(js) : jo[js[i]].name = n})]]

\* a joint's adjacency entry holds its parent instead of its child
RebuiltAdjacencyUpward(ls, js, lo2, jo) ==
    LET lnames == {lo2[l].name : l \in Range(ls)}
        jnames == {jo[j].name : j \in Range(js)}
    IN  [n \in lnames \cup jnames |->
            IF n \in jnames
            THEN <<jo[js[Max({i \in 1..Len(js) : jo[js[i]].name = n})]].parent>>
            ELSE JointNamesOf(jo,
                    lo2[ls[Max({i \in 1..Len(ls) : lo2[ls[i]].name = n})]].joints)]

\* self._adjacency after _rebuild_tree: the joints' entries are written after
\* the links' entries, so a joint wins a name it shares with a link
RebuiltAdjacency(ls, js, lo2, jo) ==
    LET lnames == {lo2[l].name : l \in Range(ls)}
        jnames == {jo[j].name : j \in Range(js)}
    IN  [n \in lnames \cup jnames |->
            IF n \in jnames
            THEN <<jo[js[Max({i \in 1..Len(js) : jo[js[i]].name = n})]].child>>
            ELSE JointNamesOf(jo,
                    lo2[ls[Max({i \in 1..Len(ls) : lo2[ls[i]].name = n})]].joints)]

\* _rebuild_tree on the lists ls, js with objects lo, jo and the old root r
RebuildTree(ls, js, lo, jo, r) ==
    LET lo2 == RebuiltLinkObj(ls, js, lo, jo)
        lk  == RebuiltLinks(ls, lo)
    IN  [linkObj    |-> lo2,
         jointObj   |-> RebuiltJointObj(js, jo, lk),
         _links     |-> lk,
         _joints    |-> RebuiltJoints(js, jo),
         _adjacency |-> RebuiltAdjacency(ls, js, lo2, jo),
         root       |-> RebuiltRoot(ls, lo2, r)]

\* the model as one value: what the operations read and write
Cur ==
    [links |-> links, joints |-> joints, linkObj |-> linkObj,
     jointObj |-> jointObj, _links |-> _links, _joints |-> _joints,
     _adjacency |-> _adjacency, root |-> root, _scale_factor |-> _scale_factor]

\* the model m after self._rebuild_tree()
Rebuilt(m) ==
    LET t == RebuildTree(m.links, m.joints, m.linkObj, m.jointObj, m.root)
    IN  [m EXCEPT !.linkObj = t.linkObj, !.jointObj = t.jointObj,
                  !._links = t._links, !._joints = t._joints,
                  !._adjacency = t._adjacency, !.root = t.root]

\* ---------------------------------------------------------------- traversals
Ok(v) == [err |-> "", val |-> v]

Err(e) == [err |-> e, val |-> <<>>]

\* depth no traversal of a cycle-free structure exceeds; a deeper recursion
\* runs round a cycle and ends in Python's RecursionError
Fuel(m) == Len(m.linkObj) + 1

RECURSIVE IterJointsFuncSameLink(_, _, _)
\* func that calls itself for clink again instead of the child link of each
\* of its joints
IterJointsFuncSameLink(m, clink, fuel) ==
    IF clink = None THEN Err("AttributeError")
    ELSE IF fuel = 0 THEN Err("RecursionError")
    ELSE LET cjoints == m.linkObj[clink].joints
         IN  IF cjoints = <<>> THEN Ok(cjoints)
             ELSE IterJointsFuncSameLink(m, clink, fuel - 1)

RECURSIVE IterJointsFunc(_, _, _)
RECURSIVE IterJointsLoop(_, _, _, _, _)
\* func(clink, joints) of iter_joints: the child joints of clink, then the
\* result of func for each of their child links
IterJointsFunc(m, clink, fuel) ==
    IF clink = None THEN Err("AttributeError")
    ELSE IF fuel = 0 THEN Err("RecursionError")
    ELSE LET cjoints == m.linkObj[clink].joints
         IN  IterJointsLoop(m, cjoints, 1, cjoints, fuel)

IterJointsLoop(m, cjoints, i, acc, fuel) ==
    IF i > Len(cjoints) THEN Ok(acc)
    ELSE LET r == IterJointsFunc(m, m.jointObj[cjoints[i]].child_link, fuel - 1)
         IN  IF r.err # "" THEN r
             ELSE IterJointsLoop(m, cjoints, i + 1, acc \o r.val, fuel)

\* iter_joints(): func(self.root, []); self.root.joints fails on None
iter_joints(m) == IterJointsFunc(m, m.root, Fuel(m))

RECURSIVE CreateFrom(_, _, _)
\* _create(link, t): TRUE when the recursion returns, FALSE when it runs
\* round a cycle until RecursionError
CreateFrom(m, link, fuel) ==
    IF link = None THEN TRUE
    ELSE IF fuel = 0 THEN FALSE
    ELSE \A i \in 1..Len(m.linkObj[link].joints) :
            CreateFrom(m, m.jointObj[m.linkObj[link].joints[i]].child_link, fuel - 1)

RECURSIVE IterLinksFunc(_, _, _, _, _)
\* func(cjoints, links) of iter_links: for each joint its child link, then the
\* result of func for that link's child joints; link.joints fails on None
IterLinksFunc(m, cjoints, i, acc, fuel) ==
    IF i > Len(cjoints) THEN Ok(acc)
    ELSE LET link == m.jointObj[cjoints[i]].child_link
         IN  IF link = None THEN Err("AttributeError")
             ELSE IF fuel = 0 THEN Err("RecursionError")
             ELSE LET r == IterLinksFunc(m, m.linkObj[link].joints, 1, <<>>, fuel - 1)
                  IN  IF r.err # "" THEN r
                      ELSE IterLinksFunc(m, cjoints, i + 1,
                                         (acc \o <<link>>) \o r.val, fuel)

\* the root itself is not yielded
iter_links_below_root(m) ==
    IF m.root = None THEN Err("AttributeError")
    ELSE IterLinksFunc(m, m.linkObj[m.root].joints, 1, <<>>, Fuel(m))

\* iter_links(): func(self.root.joints, [self.root]); self.root.joints fails
\* on None
iter_links(m) ==
    IF m.root = None THEN Err("AttributeError")
    ELSE IterLinksFunc(m, m.linkObj[m.root].joints, 1, <<m.root>>, Fuel(m))

\* ---------------------------------------------------------------- kinematics
\* A Transformation is the sequence of its factors, the identity is <<>> and
\* the product is concatenation; a factor is the local transformation of a
\* joint: its origin with the motion of a position along its axis.
Identity == <<>>

\* Joint.calculate_transformation(position): the origin with the rotation or
\* translation by position; a fixed joint yields the origin only
calculate_transformation(j, position) ==
    <<[origin |-> j.name, motion |-> IF j.type = "fixed" THEN 0 ELSE position]>>

\* Mimic.calculate_position(mimicked_joint_position)
calculate_position(mimic, position) == mimic[2] * position + mimic[3]

\* transformations.update(d)
Update(acc, d) ==
    [n \in DOMAIN acc \cup DOMAIN d |-> IF n \in DOMAIN d THEN d[n] ELSE acc[n]]

\* {name: transformation}
Single(name, t) == [n \in {name} |-> t]

\* a dict without keys
EmptyDict == [n \in {} |-> Identity]

\* depth no descent exceeds unless it repeats itself: a descent that meets a
\* child_link of None starts again at the root
Fuel2(m) == 2 * Len(m.linkObj) + 2

\* the mimic coupling is looked at before the joint's own value
PositionMimicFirst(j, joint_state) ==
    IF j.mimic # <<>> /\ j.mimic[1] \in DOMAIN joint_state
    THEN <<calculate_position(j.mimic, joint_state[j.mimic[1]])>>
    ELSE IF j.name \in DOMAIN joint_state THEN <<joint_state[j.name]>>
    ELSE <<>>

\* the position compute_transformations finds for a child joint: <<position>>,
\* or <<>> when the joint is given none
position(j, joint_state) ==
    IF j.name \in DOMAIN joint_state THEN <<joint_state[j.name]>>
    ELSE IF j.mimic # <<>> /\ j.mimic[1] \in DOMAIN joint_state
    THEN <<calculate_position(j.mimic, joint_state[j.mimic[1]])>>
    ELSE <<>>

\* the entry of a joint is left out when the joint is given no position
EntryWhenPositioned(j, joint_state, t) ==
    IF position(j, joint_state) = <<>> THEN EmptyDict ELSE Single(j.name, t)

\* the child link is handed the transformation of the link above it
PassedParent(parent, t) == parent

\* the parent_transformation handed to the child link: the joint's own
Passed(parent, t) == t

\* {child_joint.name: transformation}, whatever joint_state holds
Entry(j, joint_state, t) == Single(j.name, t)

RECURSIVE compute_transformations(_, _, _, _, _)
RECURSIVE ComputeLoop(_, _, _, _, _, _, _)
\* compute_transformations(joint_state, link, parent_transformation): link of
\* None is the root
compute_transformations(m, joint_state, link, parent, fuel) ==
    LET l == IF link = None THEN m.root ELSE link
    IN  IF l = None THEN Err("AttributeError")
        ELSE IF fuel = 0 THEN Err("RecursionError")
        ELSE ComputeLoop(m, joint_state, m.linkObj[l].joints, 1, parent,
                         EmptyDict, fuel)

\* the loop over link.joints, from the i-th child joint on
ComputeLoop(m, joint_state, cjoints, i, parent, acc, fuel) ==
    IF i > Len(cjoints) THEN Ok(acc)
    ELSE LET j == m.jointObj[cjoints[i]]
             pos == position(j, joint_state)
             t == IF pos = <<>> THEN parent
                  ELSE parent \o calculate_transformation(j, pos[1])
             r == compute_transformations(m, joint_state, j.child_link,
                                          Passed(parent, t), fuel - 1)
         IN  IF r.err # "" THEN r
             ELSE ComputeLoop(m, joint_state, cjoints, i + 1, parent,
                              Update(Update(acc, Entry(j, joint_state, t)), r.val),
                              fuel)

\* ---------------------------------------------------------------- chains
Last(s) == s[Len(s)]

Outcome(kind, path) == [kind |-> kind, path |-> path]

RECURSIVE BfsLevel(_, _, _)
\* bfs_paths, one queue level at a time: level is the set of queued paths of
\* one length.  A path whose last node has no adjacency entry raises KeyError
\* when it is dequeued; a path whose last node has the goal as a neighbour
\* outside the path yields.  The neighbours are iterated as a Python set, so
\* any of the events of the first level that has one can come first.
BfsLevel(adj, goal, level) ==
    LET missing == {p \in level : Last(p) \notin DOMAIN adj}
        open    == level \ missing
        hits    == {p \in open : goal \in Range(adj[Last(p)]) \ Range(p)}
        events  == (IF missing = {} THEN {} ELSE {Outcome("KeyError", <<>>)})
                   \cup {Outcome("path", p \o <<goal>>) : p \in hits}
        next    == UNION {{p \o <<n>> :
                              n \in Range(adj[Last(p)]) \ (Range(p) \cup {goal})} :
                          p \in open}
    IN  IF events # {} THEN events
        ELSE IF next = {} THEN {Outcome("None", <<>>)}
        ELSE BfsLevel(adj, goal, next)

\* compas.topology.shortest_path(adjacency, root, goal): the first path
\* bfs_paths yields, None when it yields none
shortest_path(adj, start, goal) == BfsLevel(adj, goal, {<<start>>})

\* the default end of iter_chain: the name of the first link without child
\* joints in reversed(self.links), None when every link has child joints
DefaultEnd(m) ==
    LET leaves == {i \in 1..Len(m.links) : m.linkObj[m.links[i]].joints = <<>>}
    IN  IF leaves = {} THEN NoName ELSE m.linkObj[m.links[Max(leaves)]].name

\* iter_chain(start, end): the set of outcomes the call can have
\*   "path"     the names it yields
\*   "NoRoot"   Exception('No root link found')
\*   "NoChain"  Exception('No chain found between the specified element')
\*   "KeyError" raised inside shortest_path
iter_chain(m, start, end) ==
    IF start = NoName /\ m.root = None THEN {Outcome("NoRoot", <<>>)}
    ELSE LET s == IF start = NoName THEN m.linkObj[m.root].name ELSE start
             e == IF end = NoName THEN DefaultEnd(m) ELSE end
         IN  {IF o.kind = "None" THEN Outcome("NoChain", <<>>) ELSE o :
                 o \in shortest_path(m._adjacency, s, e)}

\* list(iter_link_chain(start, end)): the chain of iter_chain mapped through
\* get_link_by_name, the names that are not links dropped
iter_link_chain(m, start, end) ==
    {IF o.kind # "path" THEN o
     ELSE Outcome("path",
             [i \in 1..Len(SelectSeq(o.path, LAMBDA n : n \in DOMAIN m._links))
                |-> m._links[SelectSeq(o.path, LAMBDA n : n \in DOMAIN m._links)[i]]]) :
        o \in iter_chain(m, start, end)}

\* list(iter_joint_chain(start, end)): the chain of iter_chain mapped through
\* get_joint_by_name, the names that are not joints dropped
iter_joint_chain(m, start, end) ==
    {IF o.kind # "path" THEN o
     ELSE Outcome("path",
             [i \in 1..Len(SelectSeq(o.path, LAMBDA n : n \in DOMAIN m._joints))
                |-> m._joints[SelectSeq(o.path, LAMBDA n : n \in DOMAIN m._joints)[i]]]) :
        o \in iter_chain(m, start, end)}

\* Joint.is_configurable()
is_configurable(j) == j.type # "fixed"

\* get_base_link_name(): the errors it can end with ("" when it returns).
\* The chain is tried inside try/except; when it fails or holds no
\* configurable joint, get_configurable_joints() runs outside the try.
get_base_link_name(m) ==
    {IF o.kind = "path" /\ \E i \in 1..Len(o.path) :
            /\ o.path[i] \in DOMAIN m._joints
            /\ is_configurable(m.jointObj[m._joints[o.path[i]]])
     THEN ""
     ELSE iter_joints(m).err :
        o \in iter_chain(m, NoName, NoName)}

\* self._root_transformation -> _get_rcf_candidate_joint(): the errors the
\* property can end with ("" when it returns a transformation)
_root_transformation(m) ==
    IF m.root = None \/ m.joints = <<>> \/ m.links = <<>> THEN {""}
    ELSE get_base_link_name(m)

\* self._create(self.root, self._root_transformation): the outcomes
Create(m) ==
    {IF e # "" THEN e
     ELSE IF CreateFrom(m, m.root, Fuel(m)) THEN "ok" ELSE "RecursionError" :
        e \in _root_transformation(m)}

\* ---------------------------------------------------------------- configurations
\* get_configurable_joints(): the configurable joints in iter_joints order
get_configurable_joints(m) ==
    LET r == iter_joints(m)
    IN  IF r.err # "" THEN r
        ELSE Ok(SelectSeq(r.val, LAMBDA j : is_configurable(m.jointObj[j])))

\* x / 2.; the limits are whole multiples of 2 units, so the quotient is exact
Half(x) == x \div 2

\* zero is compared with the lower end of the limit only
ZeroValueLowerOnly(limit) ==
    IF limit # <<>> /\ ~(0 >= limit[1])
    THEN Half(limit[2] + limit[1])
    ELSE 0

\* the value zero_configuration gives a joint of the limit <<lower, upper>>
ZeroValue(limit) ==
    IF limit # <<>> /\ ~(0 <= limit[2] /\ 0 >= limit[1])
    THEN Half(limit[2] + limit[1])
    ELSE 0

\* the names are stored last to first
ConfigurationNamesReversed(values, types, names) ==
    [values |-> values, types |-> types,
     names |-> [i \in 1..Len(names) |-> names[Len(names) + 1 - i]]]

\* Configuration(values, joint_types, joint_names)
Configuration(values, types, names) ==
    [values |-> values, types |-> types, names |-> names]

\* zero_configuration()
zero_configuration(m) ==
    LET r == get_configurable_joints(m)
        js == r.val
    IN  IF r.err # "" THEN r
        ELSE Ok(Configuration(
                [i \in 1..Len(js) |-> ZeroValue(m.jointObj[js[i]].limit)],
                [i \in 1..Len(js) |-> m.jointObj[js[i]].type],
                [i \in 1..Len(js) |-> m.jointObj[js[i]].name]))

\* the values random.random() is drawn from: 0 and 1/2 of [0, 1)
RandomDraws == {0, 1}

\* lower + (upper - lower) * random.random() for the draw d, 0 without limit
RandomValue(limit, d) ==
    IF limit # <<>>
    THEN limit[1] + (IF d = 0 THEN 0 ELSE Half(limit[2] - limit[1]))
    ELSE 0

\* random_configuration(): the set of results it can have.  The values follow
\* get_configurable_joints(), the names get_configurable_joint_names() and
\* the types get_joint_types_by_names(names), which looks each name up in
\* self._joints and fails on a name without entry.
random_configuration(m) ==
    LET r == get_configurable_joints(m)
        js == r.val
        names == [i \in 1..Len(js) |-> m.jointObj[js[i]].name]
    IN  IF r.err # "" THEN {r}
        ELSE IF \E i \in 1..Len(js) : names[i] \notin DOMAIN m._joints
        THEN {Err("AttributeError")}
        ELSE {Ok(Configuration(
                 [i \in 1..Len(js) |-> RandomValue(m.jointObj[js[i]].limit, d[i])],
                 [i \in 1..Len(js) |-> m.jointObj[m._joints[names[i]]].type],
                 names)) : d \in [1..Len(js) -> RandomDraws]}

\* ---------------------------------------------------------------- scaling
\* self._scale_factor is left as it is when scale returns
ScaleFactorKept(m, factor) == m

\* self._scale_factor = factor, the last statement of scale
ScaleFactorSet(m, factor) == [m EXCEPT !._scale_factor = factor]

RECURSIVE scale(_, _, _, _)
RECURSIVE ScaleLoop(_, _, _, _, _)
\* scale(factor, link): the model it leaves and the error it ends with ("" when
\* it returns).  Joint.scale(relative_factor) is recorded in the joint.
scale(m, factor, link, fuel) ==
    LET whole == link = None \/ link = m.root
        l == IF whole THEN m.root ELSE link
    IN  IF whole /\ m._scale_factor.n = 0 THEN [err |-> "ZeroDivisionError", m |-> m]
        ELSE IF l = None THEN [err |-> "AttributeError", m |-> m]
        ELSE IF fuel = 0 THEN [err |-> "RecursionError", m |-> m]
        ELSE LET relative_factor == IF whole THEN RatDiv(factor, m._scale_factor)
                                    ELSE factor
                 r == ScaleLoop(m, relative_factor, m.linkObj[l].joints, 1, fuel)
             IN  IF r.err # "" THEN r
                 ELSE [err |-> "", m |-> ScaleFactorSet(r.m, factor)]

\* the loop over link.joints, from the i-th child joint on
ScaleLoop(m, relative_factor, cjoints, i, fuel) ==
    IF i > Len(cjoints) THEN [err |-> "", m |-> m]
    ELSE LET m1 == [m EXCEPT !.jointObj[cjoints[i]].scaled =
                                 Append(@, relative_factor)]
             r  == scale(m1, relative_factor, m1.jointObj[cjoints[i]].child_link,
                         fuel - 1)
         IN  IF r.err # "" THEN r
             ELSE ScaleLoop(r.m, relative_factor, cjoints, i + 1, fuel)

\* ---------------------------------------------------------------- calls
\* what is recorded of a call: the operation, its outcome ("ok" or the
\* exception), its name arguments, its Link arguments, the names it yielded
Call(op, outcome, name, arg, p, c, path) ==
    [op |-> op, outcome |-> outcome, name |-> name, arg |-> arg,
     p |-> p, c |-> c, path |-> path]

\* the variables take the values of the model m
Becomes(m) ==
    /\ links' = m.links
    /\ joints' = m.joints
    /\ linkObj' = m.linkObj
    /\ jointObj' = m.jointObj
    /\ _links' = m._links
    /\ _joints' = m._joints
    /\ _adjacency' = m._adjacency
    /\ root' = m.root
    /\ _scale_factor' = m._scale_factor

\* RobotModel(name): no links, no joints, _rebuild_tree(), _create(None, ...)
Init ==
    /\ links = <<>>
    /\ joints = <<>>
    /\ linkObj = <<>>
    /\ jointObj = <<>>
    /\ _links = EmptyMap
    /\ _joints = EmptyMap
    /\ _adjacency = EmptyMap
    /\ root = None
    /\ _scale_factor = One
    /\ scales = <<>>
    /\ last = Call("init", "ok", NoName, NoName, None, None, <<>>)
    /\ removals = 0
    /\ clean = TRUE

\* _check_link_name(name) raises ValueError
LinkNameUsedInLookup(m, name) == name \in DOMAIN m._links

LinkNameUsed(m, name) == name \in Range(LinkNamesOf(m.linkObj, m.links))

\* add_link after the name check: the model with the new Link appended, rebuilt
\* when it is the only link of the list
AddedLink(m, name) ==
    LET id == Len(m.linkObj) + 1
        m1 == [m EXCEPT !.linkObj = Append(@, NewLink(name)),
                        !.links = Append(@, id)]
    IN  IF Len(m1.links) = 1 THEN Rebuilt(m1) ELSE m1

\* add_link(name), creating at most max Link objects
AddLinkUpTo(name, max) ==
    /\ UNCHANGED <<removals, clean, scales>>
    /\ IF LinkNameUsed(Cur, name)
       THEN /\ last' = Call("add_link", "ValueError", name, NoName, None, None, <<>>)
            /\ UNCHANGED model
       ELSE
         /\ Len(linkObj) < max
         /\ LET m2 == AddedLink(Cur, name)
            IN  /\ Becomes(m2)
                /\ \E outcome \in (IF Len(m2.links) = 1 THEN Create(m2) ELSE {"ok"}) :
                      last' = Call("add_link", outcome, name, NoName,
                                   None, None, <<>>)

\* add_link(name)
AddLink(name) == AddLinkUpTo(name, MaxLinkObjs)

\* remove_link(name)
RemovedLink(m, name) ==
    [m EXCEPT !.links = SelectSeq(@, LAMBDA l : m.linkObj[l].name # name)]

RemoveLink(name) ==
    /\ removals < MaxRemovals
    /\ removals' = removals + 1
    /\ clean' = FALSE
    /\ UNCHANGED scales
    /\ Becomes(RemovedLink(Cur, name))
    /\ last' = Call("remove_link", "ok", name, NoName, None, None, <<>>)

\* the joint-name check of add_joint raises ValueError
JointNameUsed(m, name) == name \in Range(JointNamesOf(m.jointObj, m.joints))

\* the Joint that add_joint makes of its arguments, child_link resolved
JointCreatedParentIsOwnName(m, name, type, p, c) ==
    [NewJoint(name, type, name, m.linkObj[c].name) EXCEPT !.child_link = c]

JointCreatedChildIsParent(m, name, type, p, c) ==
    [NewJoint(name, type, m.linkObj[p].name, m.linkObj[c].name)
        EXCEPT !.child_link = p]

JointCreated(m, name, type, p, c) ==
    [NewJoint(name, type, m.linkObj[p].name, m.linkObj[c].name)
        EXCEPT !.child_link = c]

\* child_link.parent_joint = joint
ParentJointKept(lo, c, id) == lo

ParentJointSet(lo, c, id) == [lo EXCEPT ![c].parent_joint = id]

\* add_joint after the name check, up to the call of _create: p and c are the
\* Link objects passed as parent_link and child_link
AddedJoint(m, name, type, p, c) ==
    LET id    == Len(m.jointObj) + 1
        pname == m.linkObj[p].name
        cname == m.linkObj[c].name
        jo    == Append(m.jointObj, JointCreated(m, name, type, p, c))
        lo1   == [m.linkObj EXCEPT ![p].joints = Append(@, id)]
        lo2   == ParentJointSet(lo1, c, id)
        lk    == Put(Put(m._links, pname, p), cname, c)
        adj1  == Put(m._adjacency, pname, JointNamesOf(jo, lo2[p].joints))
    IN  [links      |-> m.links,
         joints     |-> Append(m.joints, id),
         linkObj    |-> lo2,
         jointObj   |-> jo,
         _links     |-> lk,
         _joints    |-> Put(m._joints, name, id),
         _adjacency |-> Put(adj1, name, <<cname>>),
         root       |-> IF lo2[p].parent_joint = None THEN p ELSE m.root,
         _scale_factor |-> m._scale_factor]

RECURSIVE ReachFrom(_, _, _)
\* the Links reached from the Links of frontier through child joints and their
\* resolved child links, seen included
ReachFrom(m, frontier, seen) ==
    IF frontier = {} THEN seen
    ELSE LET new == {m.jointObj[j].child_link :
                        j \in UNION {Range(m.linkObj[l].joints) : l \in frontier}}
                    \ ({None} \cup seen \cup frontier)
         IN  ReachFrom(m, new, seen \cup frontier)

\* the Links below the Link l, l included
Below(m, l) == ReachFrom(m, {l}, {})

\* add_joint is given a child that has no parent joint and is not the parent
\* nor above it
Attaches(m, p, c) ==
    /\ m.linkObj[c].parent_joint = None
    /\ p \notin Below(m, c)

\* add_joint that appends the joint before it checks the name
AddJointChecksLate(name, type, p, c) ==
    /\ UNCHANGED <<removals, linkObj, links, _links, _joints, _adjacency, root,
                   _scale_factor, scales>>
    /\ Len(jointObj) < MaxJointObjs
    /\ clean' = (clean /\ Attaches(Cur, p, c))
    /\ jointObj' = Append(jointObj, JointCreated(Cur, name, type, p, c))
    /\ joints' = Append(joints, Len(jointObj) + 1)
    /\ last' = Call("add_joint",
                    IF JointNameUsed(Cur, name) THEN "ValueError" ELSE "ok",
                    name, NoName, p, c, <<>>)

\* add_joint(name, type, parent_link, child_link), creating at most max Joints
AddJointUpTo(name, type, p, c, max) ==
    /\ UNCHANGED <<removals, scales>>
    /\ IF JointNameUsed(Cur, name)
       THEN /\ last' = Call("add_joint", "ValueError", name, NoName, None, None, <<>>)
            /\ UNCHANGED <<model, clean>>
       ELSE
         /\ clean' = (clean /\ Attaches(Cur, p, c))
         /\ Len(jointObj) < max
         /\ LET m2 == AddedJoint(Cur, name, type, p, c)
            IN  /\ Becomes(m2)
                /\ \E outcome \in Create(m2) :
                      last' = Call("add_joint", outcome, name, NoName, p, c, <<>>)

\* add_joint(name, type, parent_link, child_link)
AddJoint(name, type, p, c) == AddJointUpTo(name, type, p, c, MaxJointObjs)

\* remove_joint(name): the model it leaves and how it ends.  The statements
\* run in order and an exception leaves the effects of those before it.
RemoveJointResult(m, name) ==
    LET joint == Get(m._joints, name)
        m1    == [m EXCEPT !.joints =
                      SelectSeq(@, LAMBDA j : m.jointObj[j].name # name)]
    IN  IF joint = None THEN [m |-> m1, outcome |-> "AttributeError"]
        ELSE
        LET parent_link == Get(m._links, m.jointObj[joint].parent)
        IN  IF parent_link = None THEN [m |-> m1, outcome |-> "AttributeError"]
            ELSE
            LET kept == SelectSeq(m.linkObj[parent_link].joints,
                                  LAMBDA j : m.jointObj[j].name # name)
                m2   == [m1 EXCEPT
                            !.linkObj[parent_link].joints = kept,
                            !._adjacency = Put(@, m.linkObj[parent_link].name,
                                               JointNamesOf(m.jointObj, kept))]
                child == m.jointObj[joint].child
            IN  IF child \notin DOMAIN m2._links
                THEN [m |-> m2, outcome |-> "KeyError"]
                ELSE
                LET m3 == [m2 EXCEPT !._links = Del(@, child),
                                     !._joints = Del(@, name)]
                IN  IF name \notin DOMAIN m3._adjacency
                    THEN [m |-> m3, outcome |-> "KeyError"]
                    ELSE [m |-> [m3 EXCEPT !._adjacency = Del(@, name)],
                          outcome |-> "ok"]

RemoveJoint(name) ==
    LET r == RemoveJointResult(Cur, name)
    IN  /\ removals < MaxRemovals
        /\ removals' = removals + 1
        /\ clean' = FALSE
        /\ UNCHANGED scales
        /\ Becomes(r.m)
        /\ last' = Call("remove_joint", r.outcome, name, NoName, None, None, <<>>)

\* list(iter_chain(start, end)); an omitted argument is NoName
IterChain(start, end) ==
    /\ \E o \in iter_chain(Cur, start, end) :
          last' = Call("iter_chain", o.kind, start, end, None, None, o.path)
    /\ UNCHANGED <<model, removals, clean, scales>>

\* list(iter_link_chain(start, end)): the Links it yields
IterLinkChain(start, end) ==
    /\ \E o \in iter_link_chain(Cur, start, end) :
          last' = Call("iter_link_chain", o.kind, start, end, None, None, o.path)
    /\ UNCHANGED <<model, removals, clean, scales>>

\* list(iter_joint_chain(start, end)): the Joints it yields
IterJointChain(start, end) ==
    /\ \E o \in iter_joint_chain(Cur, start, end) :
          last' = Call("iter_joint_chain", o.kind, start, end, None, None, o.path)
    /\ UNCHANGED <<model, removals, clean, scales>>

\* how a traversal that returned r ended
Ended(r) == IF r.err = "" THEN "ok" ELSE r.err

\* list(iter_links()): the Links it yields
IterLinks ==
    /\ LET r == iter_links(Cur)
       IN  last' = Call("iter_links", Ended(r), NoName, NoName, None, None, r.val)
    /\ UNCHANGED <<model, removals, clean, scales>>

\* iter_joints that collects into the root's own child-joint list
IterJointsInPlace ==
    /\ LET r == iter_joints(Cur)
       IN  /\ last' = Call("iter_joints", Ended(r), NoName, NoName, None, None, r.val)
           /\ linkObj' = IF r.err = "" THEN [linkObj EXCEPT ![root].joints = r.val]
                         ELSE linkObj
    /\ UNCHANGED <<links, joints, jointObj, _links, _joints, _adjacency, root,
                   _scale_factor, removals, clean, scales>>

\* list(iter_joints()): the Joints it yields
IterJoints ==
    /\ LET r == iter_joints(Cur)
       IN  last' = Call("iter_joints", Ended(r), NoName, NoName, None, None, r.val)
    /\ UNCHANGED <<model, removals, clean, scales>>

\* compute_transformations(joint_state, link); link is None when omitted
ComputeTransformations(joint_state, link) ==
    /\ LET r == compute_transformations(Cur, joint_state, link, Identity, Fuel2(Cur))
       IN  last' = Call("compute_transformations", Ended(r), NoName, NoName,
                        link, None,
                        <<[joint_state |-> joint_state, result |-> r.val]>>)
    /\ UNCHANGED <<model, removals, clean, scales>>

\* zero_configuration(): the Configuration it returns
ZeroConfiguration ==
    /\ LET r == zero_configuration(Cur)
       IN  last' = Call("zero_configuration", Ended(r), NoName, NoName, None, None,
                        <<r.val>>)
    /\ UNCHANGED <<model, removals, clean, scales>>

\* random_configuration(): the Configuration it returns
RandomConfiguration ==
    /\ \E r \in random_configuration(Cur) :
          last' = Call("random_configuration", Ended(r), NoName, NoName, None, None,
                       <<r.val>>)
    /\ UNCHANGED <<model, removals, clean, scales>>

\* scale(factor) on the whole model
Scale(factor) ==
    /\ LET r == scale(Cur, factor, None, Fuel2(Cur))
       IN  /\ Becomes(r.m)
           /\ last' = Call("scale", Ended(r), NoName, NoName, None, None, <<factor>>)
    /\ scales' = Append(scales, factor)
    /\ UNCHANGED <<removals, clean>>

\* the operations that start at self.root, called without arguments
Traverse ==
    \/ IterLinks
    \/ IterJoints
    \/ ComputeTransformations(EmptyDict, None)

Queries == {"iter_chain", "iter_links", "iter_joints", "compute_transformations"}

LinkRefs == 1..Len(linkObj)

Next ==
    \/ \E name \in LinkNames : AddLink(name)
    \/ \E name \in LinkNames : RemoveLink(name)
    \/ \E name \in JointNames, p \in LinkRefs, c \in LinkRefs :
          AddJoint(name, TypeOf(name), p, c)
    \/ \E name \in JointNames : RemoveJoint(name)

Spec == Init /\ [][Next]_vars

\* ---------------------------------------------------------------- constructor
\* the link lists and joint lists a caller (the URDF parser) hands to
\* RobotModel(name, joints, links): distinct names; a joint may name any link
LinkListInputs == {q \in SeqsUpTo(LinkNames, MaxListLinks) : NoDuplicate(q)}

JointListInputs ==
    {q \in SeqsUpTo([name : ListJointNames, parent : LinkNames, child : LinkNames],
                    MaxListJoints) :
        NoDuplicate([i \in 1..Len(q) |-> q[i].name])}

\* the arguments of RobotModel(name, joints, links), before __init__ runs
InitBuild ==
    \E ls \in LinkListInputs, js \in JointListInputs :
        /\ links = [i \in 1..Len(ls) |-> i]
        /\ linkObj = [i \in 1..Len(ls) |-> NewLink(ls[i])]
        /\ joints = [i \in 1..Len(js) |-> i]
        /\ jointObj = [i \in 1..Len(js) |->
                          NewJoint(js[i].name, TypeOf(js[i].name),
                                   js[i].parent, js[i].child)]
        /\ _links = EmptyMap
        /\ _joints = EmptyMap
        /\ _adjacency = EmptyMap
        /\ root = None
        /\ _scale_factor = Unset
        /\ scales = <<>>
        /\ last = Call("lists", "ok", NoName, NoName, None, None, <<>>)
        /\ removals = 0
        /\ clean = TRUE

\* RobotModel.__init__: _rebuild_tree(), then _create(root, _root_transformation),
\* then self._scale_factor = 1.
Construct ==
    /\ last.op = "lists"
    /\ LET m2 == Rebuilt(Cur)
       IN  \E outcome \in Create(m2) :
              /\ Becomes(IF outcome = "ok" THEN [m2 EXCEPT !._scale_factor = One]
                                           ELSE m2)
              /\ last' = Call("__init__", outcome, NoName, NoName, None, None, <<>>)
    /\ UNCHANGED <<removals, clean, scales>>

\* the constructor returned a model, and no query was made on it yet
Built == last.op = "__init__" /\ last.outcome = "ok"

NodeNames == LinkNames \cup ListJointNames

\* a chain query on the constructed model
Query ==
    /\ Built
    /\ \E start \in NodeNames \cup {NoName}, end \in NodeNames \cup {NoName} :
          IterChain(start, end)

\* a traversal of the constructed model
BuildTraverse == Built /\ Traverse

NextBuild == Construct \/ Query \/ BuildTraverse

SpecBuild == InitBuild /\ [][NextBuild]_vars

\* ---------------------------------------------------------------- growing
\* A model that is only added to, the way the docstring of add_joint builds
\* one: links are added, and add_joint attaches a link that has no parent
\* joint below a link that is not under it; then one chain is asked for.
GrowLink == \E name \in GrowLinkNames :
    /\ last.op # "iter_chain"
    /\ ~LinkNameUsed(Cur, name)
    /\ AddLinkUpTo(name, MaxGrowLinks)

GrowJoint == \E name \in GrowJointNames, p \in LinkRefs, c \in LinkRefs :
    /\ last.op # "iter_chain"
    /\ ~JointNameUsed(Cur, name)
    /\ Attaches(Cur, p, c)
    /\ AddJointUpTo(name, TypeOf(name), p, c, MaxGrowJoints)

GrowQuery ==
    /\ last.op # "iter_chain"
    /\ root # None
    /\ \E end \in GrowLinkNames : IterChain(linkObj[root].name, end)

NextGrow == GrowLink \/ GrowJoint \/ GrowQuery

SpecGrow == Init /\ [][NextGrow]_vars

\* ---------------------------------------------------------------- kinematic trees
\* Tree-shaped models of up to MaxKinLinks links as the constructor builds
\* them: the links are the first names of KinLinkNames, the i-th joint of the
\* joint list is named KinJointNames[i] and has the (i+1)-th link as child, so
\* that every tree shape occurs with every declaration order of its joints.
\* A joint is given one of the Profiles: type, limit and mimic.
KinLinkNames == <<"a", "b", "c", "d", "e">>

KinJointNames == <<"j", "k", "m", "n">>

Profiles ==
    {[type |-> "fixed",      limit |-> <<>>,         mimic |-> <<>>],
     [type |-> "continuous", limit |-> <<>>,         mimic |-> <<>>],
     [type |-> "revolute",   limit |-> <<10, 20>>,   mimic |-> <<>>],
     [type |-> "revolute",   limit |-> <<-10, 10>>,  mimic |-> <<>>],
     [type |-> "prismatic",  limit |-> <<-20, -10>>, mimic |-> <<>>],
     [type |-> "continuous", limit |-> <<>>,         mimic |-> <<"j", 2, 1>>]}

RECURSIVE Ancestors(_, _, _)
\* the links above link i when par[k] is the parent of link k, followed for at
\* most fuel steps
Ancestors(par, i, fuel) ==
    IF i = 1 \/ fuel = 0 THEN {}
    ELSE {par[i]} \cup Ancestors(par, par[i], fuel - 1)

\* the parent functions of the trees of n links rooted in the first link
TreeParents(n) ==
    {par \in [2..n -> 1..n] : \A i \in 2..n : i \notin Ancestors(par, i, n)}

\* the Joint the i-th joint record makes
KinJoint(i, par, prof) ==
    [NewJoint(KinJointNames[i], prof[i].type, KinLinkNames[par[i + 1]],
              KinLinkNames[i + 1])
        EXCEPT !.limit = prof[i].limit, !.mimic = prof[i].mimic]

\* the model RobotModel(name, joints, links) returns for a tree
KinModel(n, par, prof) ==
    LET lists == [links |-> [i \in 1..n |-> i],
                  joints |-> [i \in 1..(n - 1) |-> i],
                  linkObj |-> [i \in 1..n |-> NewLink(KinLinkNames[i])],
                  jointObj |-> [i \in 1..(n - 1) |-> KinJoint(i, par, prof)],
                  _links |-> EmptyMap, _joints |-> EmptyMap,
                  _adjacency |-> EmptyMap, root |-> None,
                  _scale_factor |-> Unset]
    IN  [Rebuilt(lists) EXCEPT !._scale_factor = One]

InitKin ==
    \E n \in 1..MaxKinLinks :
      \E par \in TreeParents(n), prof \in [1..(n - 1) -> Profiles] :
        LET m == KinModel(n, par, prof)
        IN  /\ Create(m) = {"ok"}
            /\ links = m.links
            /\ joints = m.joints
            /\ linkObj = m.linkObj
            /\ jointObj = m.jointObj
            /\ _links = m._links
            /\ _joints = m._joints
            /\ _adjacency = m._adjacency
            /\ root = m.root
            /\ _scale_factor = m._scale_factor
            /\ scales = <<>>
            /\ last = Call("__init__", "ok", NoName, NoName, None, None, <<>>)
            /\ removals = 0
            /\ clean = TRUE

\* the joint states handed to compute_transformations: some of the joints,
\* all at one position
KinJointStates ==
    {[n \in S |-> v] :
        S \in SUBSET Range(SubSeq(KinJointNames, 1, MaxKinLinks - 1)),
        v \in KinPositions}

KinCompute ==
    /\ Built
    /\ \E joint_state \in KinJointStates, link \in {None} \cup Range(links) :
          ComputeTransformations(joint_state, link)

KinLinks == Built /\ IterLinks

KinZero == Built /\ ZeroConfiguration

KinRandom == Built /\ RandomConfiguration

KinScale ==
    /\ last.op \in {"__init__", "scale"}
    /\ last.outcome = "ok"
    /\ Len(scales) < MaxScales
    /\ \E f \in ScaleFactors : Scale(Rat(f, 1))

NextKin == KinCompute \/ KinLinks \/ KinZero \/ KinRandom \/ KinScale

SpecKin == InitKin /\ [][NextKin]_vars

\* ---------------------------------------------------------------- editing
\* A model that is edited with all four mutations, then asked one query.
EditLink == \E name \in LinkNames :
    /\ last.op \notin Queries
    /\ AddLinkUpTo(name, MaxEditLinks)

EditJoint == \E name \in JointNames, p \in LinkRefs, c \in LinkRefs :
    /\ last.op \notin Queries
    /\ AddJointUpTo(name, TypeOf(name), p, c, MaxEditJoints)

EditRemoveLink == \E name \in LinkNames :
    /\ last.op \notin Queries
    /\ RemoveLink(name)

EditRemoveJoint == \E name \in JointNames :
    /\ last.op \notin Queries
    /\ RemoveJoint(name)

EditChain ==
    /\ last.op \notin Queries
    /\ \E start \in LinkNames \cup JointNames \cup {NoName},
          end \in LinkNames \cup JointNames \cup {NoName} : IterChain(start, end)

EditTraverse == last.op \notin Queries /\ Traverse

NextEdit ==
    \/ EditLink
    \/ EditJoint
    \/ EditRemoveLink
    \/ EditRemoveJoint
    \/ EditChain
    \/ EditTraverse

SpecEdit == Init /\ [][NextEdit]_vars

\* ---------------------------------------------------------------- claims
Mutations == {"add_link", "add_joint", "remove_link", "remove_joint"}

\* the last call was a mutation and it returned
Completed == last.op \in Mutations /\ last.outcome = "ok"

\* the links of the model whose parent-joint reference is empty
ParentlessLinks == {l \in Range(links) : linkObj[l].parent_joint = None}

\* the joints of the model whose child is the link l
ParentJointsOf(l) == {j \in Range(joints) : jointObj[j].child = linkObj[l].name}

\* following child joints and resolved child links from l returns to l
OnCycle(m, l) ==
    l \in ReachFrom(m, {m.jointObj[j].child_link : j \in Range(m.linkObj[l].joints)}
                       \ {None}, {})

NoCycle == \A l \in Range(links) : ~OnCycle(Cur, l)

NoSharedChild ==
    \A j1 \in Range(joints), j2 \in Range(joints) :
        j1 # j2 => /\ jointObj[j1].child # jointObj[j2].child
                   /\ jointObj[j1].child_link # jointObj[j2].child_link

JointEndsPresent ==
    \A j \in Range(joints) :
        /\ jointObj[j].parent \in Range(LinkNamesOf(linkObj, links))
        /\ jointObj[j].child \in Range(LinkNamesOf(linkObj, links))

\* C1 as stated: after every completed mutation exactly one link (of a model
\* that has links) has no parent joint and every other link has exactly one
\* parent joint.
C1_ExactlyOneParentless ==
    (Completed /\ links # <<>>) =>
        /\ Cardinality(ParentlessLinks) = 1
        /\ \A l \in Range(links) \ ParentlessLinks :
              Cardinality(ParentJointsOf(l)) = 1

\* C1 amended: after add_link and add_joint calls only, each add_joint given a
\* child that has no parent joint and is not the parent nor above it, every link
\* has at most one parent joint, has none exactly when its parent-joint
\* reference is empty, and the links without parent joint number the links
\* minus the joints.
C1_AttachedOnce ==
    clean =>
        /\ \A l \in Range(links) :
              ParentJointsOf(l) = {linkObj[l].parent_joint} \ {None}
        /\ Cardinality(ParentlessLinks) = Len(links) - Len(joints)

C1_Witness ==
    /\ clean
    /\ last.op = "add_joint" /\ last.outcome = "ok"
    /\ Len(links) = 3 /\ Len(joints) = 2
    /\ Cardinality(ParentlessLinks) = 1

C4_NamesDistinct ==
    /\ NoDuplicate(LinkNamesOf(linkObj, links))
    /\ NoDuplicate(JointNamesOf(jointObj, joints))

\* a name was taken again after its first holder was removed, and a second
\* use of a name in the list has just been refused
C4_Witness ==
    /\ last.outcome = "ValueError"
    /\ Len(links) >= 2
    /\ \E l \in DOMAIN linkObj \ Range(links) :
          linkObj[l].name \in Range(LinkNamesOf(linkObj, links))

\* C5: a call that ends with the name-conflict ValueError leaves link list,
\* joint list, objects, lookups, adjacency and root as they were.
C5_ConflictChangesNothing ==
    [][last'.outcome = "ValueError" => UNCHANGED model]_vars

C5_Witness ==
    /\ last.op = "add_joint" /\ last.outcome = "ValueError"
    /\ Len(joints) >= 1 /\ Len(links) >= 2

\* C7: after a successful add_joint the parent's child-joint list holds the new
\* joint, the child's parent-joint reference is the new joint, the parent's
\* adjacency entry lists the joint's name and the joint's adjacency entry is
\* the list of the child's name.
C7_AddJointLinksUp ==
    (last.op = "add_joint" /\ last.outcome = "ok") =>
        LET j == Len(jointObj)
            pname == linkObj[last.p].name
            jname == jointObj[j].name
        IN  /\ j \in Range(linkObj[last.p].joints)
            /\ linkObj[last.c].parent_joint = j
            /\ pname \in DOMAIN _adjacency
            /\ jname \in Range(_adjacency[pname])
            /\ jname \in DOMAIN _adjacency
            /\ _adjacency[jname] = <<linkObj[last.c].name>>

ListLinkNames == Range(LinkNamesOf(linkObj, links))

ListJointNamesUsed == Range(JointNamesOf(jointObj, joints))

\* the names of the joints of the joint list whose parent is the link name n,
\* and the child of the joint named n
ChildNodes(n) ==
    {jointObj[j].name : j \in {k \in Range(joints) : jointObj[k].parent = n}}
    \cup {jointObj[j].child : j \in {k \in Range(joints) : jointObj[k].name = n}}

RECURSIVE NodesBelow(_, _)
\* the nodes reached from the nodes of frontier by the lists' parent->joint and
\* joint->child edges, in at least one step
NodesBelow(frontier, seen) ==
    LET new == UNION {ChildNodes(n) : n \in frontier} \ seen
    IN  IF new = {} THEN seen ELSE NodesBelow(new, seen \cup new)

\* a consistent link/joint list: unique names, no name used for a link and a
\* joint, every joint's parent and child present, tree-shaped
ConsistentLists ==
    /\ links # <<>>
    /\ NoDuplicate(LinkNamesOf(linkObj, links))
    /\ NoDuplicate(JointNamesOf(jointObj, joints))
    /\ ListLinkNames \cap ListJointNamesUsed = {}
    /\ JointEndsPresent
    /\ Len(joints) = Len(links) - 1
    /\ \A j1 \in Range(joints), j2 \in Range(joints) :
          j1 # j2 => jointObj[j1].child # jointObj[j2].child
    /\ \A n \in ListLinkNames : n \notin NodesBelow({n}, {})

\* C6: in a model the constructor built from a consistent list exactly one
\* link has no parent joint, and self.root is that link.
C6_RootIsTheParentless ==
    (last.op # "lists" /\ ConsistentLists) =>
        /\ Cardinality(ParentlessLinks) = 1
        /\ root \in ParentlessLinks

C6_Witness ==
    /\ last.op = "__init__" /\ last.outcome = "ok"
    /\ ConsistentLists
    /\ Len(links) = 3
    /\ root = links[2]

\* p is a sequence of node names in which every node is a child node of the
\* one before it: link, joint of that link, child link of that joint, ...
Descends(p) ==
    /\ \A i \in 1..(Len(p) - 1) : p[i + 1] \in ChildNodes(p[i])
    /\ \A i \in 1..Len(p) : (i % 2 = 1) <=> (p[i] \in ListLinkNames)

\* C9: in a model with a root, iter_chain(root name, L) for a childless link L
\* reachable from the root yields a sequence that starts with the root's name,
\* ends with L's name and alternates link, joint, link, each joint between its
\* parent and its child.  Stated for L other than the root and for models
\* whose lists are consistent, which is the narrowest reading of the claim.
C9_RootToLeafChain ==
    (/\ last.op = "iter_chain"
     /\ ConsistentLists
     /\ root # None
     /\ last.name = linkObj[root].name
     /\ last.arg # last.name
     /\ \E l \in Below(Cur, root) :
           linkObj[l].name = last.arg /\ linkObj[l].joints = <<>>)
    => /\ last.outcome = "path"
       /\ last.path[1] = last.name
       /\ Last(last.path) = last.arg
       /\ Descends(last.path)

\* p is a path of the tree: neighbours are parent and child in either order,
\* and no node occurs twice
TreePath(p) ==
    /\ NoDuplicate(p)
    /\ \A i \in 1..(Len(p) - 1) :
          p[i + 1] \in ChildNodes(p[i]) \/ p[i] \in ChildNodes(p[i + 1])

\* start and end name nodes of the constructed tree
QueryInTree ==
    /\ last.op = "iter_chain"
    /\ ConsistentLists
    /\ last.name \in ListLinkNames \cup ListJointNamesUsed
    /\ last.arg \in ListLinkNames \cup ListJointNamesUsed

\* C10 as stated: for any two nodes of the tree iter_chain(start, end) yields
\* the tree path from start to end.
C10_AnyPairChain ==
    QueryInTree =>
        /\ last.outcome = "path"
        /\ last.path[1] = last.name
        /\ Last(last.path) = last.arg
        /\ TreePath(last.path)

\* C10 amended: when end lies below start, iter_chain(start, end) yields the
\* path from start down to end; for every other pair of nodes (end above
\* start, on another branch, or start itself) it yields nothing and ends with
\* 'No chain found'.
C10_DownwardChain ==
    QueryInTree =>
        IF last.arg \in NodesBelow({last.name}, {})
        THEN /\ last.outcome = "path"
             /\ last.path[1] = last.name
             /\ Last(last.path) = last.arg
             /\ NoDuplicate(last.path)
             /\ \A i \in 1..(Len(last.path) - 1) :
                   last.path[i + 1] \in ChildNodes(last.path[i])
        ELSE /\ last.outcome = "NoChain"
             /\ last.path = <<>>

C10_Witness ==
    /\ QueryInTree
    /\ last.outcome = "path"
    /\ Len(last.path) = 4
    /\ last.name \in ListJointNamesUsed

\* ---- claims about failing queries (SpecEdit, SpecBuild)
RECURSIVE AdjBelow(_, _)
\* the names reached from the names of frontier along the entries of
\* self._adjacency, in at least one step
AdjBelow(frontier, seen) ==
    LET new == UNION {Range(_adjacency[n]) : n \in frontier \cap DOMAIN _adjacency}
               \ seen
    IN  IF new = {} THEN seen ELSE AdjBelow(new, seen \cup new)

\* C11: when start and end name links or joints of the lists and end is not
\* reached from start, iter_chain(start, end) yields no name and ends with
\* 'No chain found', never with another error.
C11_UnreachableIsNoChain ==
    (/\ last.op = "iter_chain"
     /\ last.name \in ListLinkNames \cup ListJointNamesUsed
     /\ last.arg \in ListLinkNames \cup ListJointNamesUsed
     /\ last.arg \notin AdjBelow({last.name}, {}))
    => /\ last.outcome = "NoChain"
       /\ last.path = <<>>

\* the last call was an operation that starts at self.root
RootDependent ==
    \/ last.op \in {"iter_links", "iter_joints"}
    \/ last.op = "compute_transformations" /\ last.p = None
    \/ last.op = "iter_chain" /\ last.name = NoName

\* the last call returned or yielded a result
Succeeded == last.outcome \in {"ok", "path"}

\* C12: when no link of the link list is without parent joint (the empty list
\* included), an operation that starts at the root fails.  Stated for any
\* failure, the named 'no root found' or another.
C12_NoRootFails ==
    (RootDependent /\ \A l \in Range(links) : linkObj[l].parent_joint # None)
    => ~Succeeded

\* C13: when the constructor was given lists in which several links have no
\* parent joint, the construction or the operation that starts at the root
\* after it fails.
C13_SeveralRootsReported ==
    (RootDependent /\ Cardinality(ParentlessLinks) > 1) => ~Succeeded

\* ---- claims about kinematics, configurations and scale (SpecKin)
\* the Joint of the joint list that has the name n
JointNamed(n) == jointObj[CHOOSE j \in Range(joints) : jointObj[j].name = n]

\* the name of the link compute_transformations started at
StartName == linkObj[IF last.p = None THEN root ELSE last.p].name

\* the names of the joints below the link of the name n, by the joint list
SubtreeJoints(n) == NodesBelow({n}, {}) \cap ListJointNamesUsed

Computed == last.op = "compute_transformations"

\* C14: compute_transformations returns a mapping whose keys are the names of
\* the joints below the starting link, whatever the joint state holds.
C14_KeysAreSubtreeJoints ==
    Computed =>
        /\ last.outcome = "ok"
        /\ DOMAIN last.path[1].result = SubtreeJoints(StartName)

C14_Witness ==
    /\ Computed
    /\ last.p # None /\ last.p # root
    /\ Cardinality(SubtreeJoints(StartName)) = 2
    /\ Cardinality(DOMAIN last.path[1].joint_state) = 1
    /\ \E n \in SubtreeJoints(StartName) : n \notin DOMAIN last.path[1].joint_state
    /\ \E n \in DOMAIN last.path[1].joint_state : n \notin SubtreeJoints(StartName)

\* the accumulated transformation above the joint j: the identity under the
\* starting link, else the entry of the parent joint of j's parent link
EntryAbove(j, result) ==
    IF j.parent = StartName THEN Identity
    ELSE result[CHOOSE n \in DOMAIN result : JointNamed(n).child = j.parent]

\* C15: the entry of a joint J is the transformation above it times J's local
\* transformation at joint_state[J] when J is a key of the joint state, else at
\* multiplier * joint_state[target] + offset when J has a mimic whose target
\* is a key, else it is the transformation above it unchanged.
C15_PositionUsed ==
    Computed =>
        LET joint_state == last.path[1].joint_state
            result == last.path[1].result
        IN  \A n \in DOMAIN result :
              LET j == JointNamed(n)
                  above == EntryAbove(j, result)
              IN  result[n] =
                    IF n \in DOMAIN joint_state
                    THEN above \o calculate_transformation(j, joint_state[n])
                    ELSE IF j.mimic # <<>> /\ j.mimic[1] \in DOMAIN joint_state
                    THEN above \o calculate_transformation(j,
                            j.mimic[2] * joint_state[j.mimic[1]] + j.mimic[3])
                    ELSE above

\* multiplier 2, offset 0.1 and the target at 3.0 give 6.1; a second mimic joint
\* has a value of its own
C15_Witness ==
    /\ Computed
    /\ LET joint_state == last.path[1].joint_state
           result == last.path[1].result
       IN  /\ \E n \in DOMAIN result :
                 /\ JointNamed(n).mimic = <<"j", 2, 1>>
                 /\ n \notin DOMAIN joint_state
                 /\ "j" \in DOMAIN joint_state /\ joint_state["j"] = 30
                 /\ Last(result[n]).motion = 61
           /\ \E n \in DOMAIN result :
                 /\ JointNamed(n).mimic # <<>>
                 /\ n \in DOMAIN joint_state
                 /\ Last(result[n]).motion = 30

RECURSIVE PathJoints(_, _)
\* the names of the joints on the path from the root to the joint of the name
\* n, n included, followed for at most fuel steps
PathJoints(n, fuel) ==
    LET above == {k \in ListJointNamesUsed : JointNamed(k).child = JointNamed(n).parent}
    IN  IF above = {} \/ fuel = 0 THEN <<n>>
        ELSE PathJoints(CHOOSE k \in above : TRUE, fuel - 1) \o <<n>>

\* the origin-only local transformation of the joint of the name n
OriginOf(n) == [origin |-> n, motion |-> 0]

\* compute_transformations was called on the whole model with every
\* configurable joint at 0, and no joint has a mimic
ZeroState ==
    /\ Computed
    /\ last.p = None
    /\ \A j \in Range(joints) : jointObj[j].mimic = <<>>
    /\ DOMAIN last.path[1].joint_state =
          {jointObj[j].name : j \in {k \in Range(joints) : jointObj[k].type # "fixed"}}
    /\ \A n \in DOMAIN last.path[1].joint_state : last.path[1].joint_state[n] = 0

\* C16 as stated: with every configurable joint at 0 the entry of each joint is
\* the product of the origins of all joints on the path from the root to it.
C16_ZeroIsAllOrigins ==
    ZeroState =>
        \A n \in ListJointNamesUsed :
            LET path == PathJoints(n, Len(joints))
            IN  last.path[1].result[n] = [i \in 1..Len(path) |-> OriginOf(path[i])]

\* C16 amended: with every configurable joint at 0 the entry of each joint is
\* the product of the origins of the configurable joints on the path from the
\* root to it; a fixed joint, which is no key of the joint state, adds nothing.
C16_ZeroIsConfigurableOrigins ==
    ZeroState =>
        \A n \in ListJointNamesUsed :
            LET path == SelectSeq(PathJoints(n, Len(joints)),
                                  LAMBDA k : JointNamed(k).type # "fixed")
            IN  last.path[1].result[n] = [i \in 1..Len(path) |-> OriginOf(path[i])]

C16_Witness ==
    /\ ZeroState
    /\ \E n \in ListJointNamesUsed :
          /\ Len(PathJoints(n, Len(joints))) = 3
          /\ JointNamed(PathJoints(n, Len(joints))[2]).type = "fixed"
          /\ Len(last.path[1].result[n]) = 2

\* C17: zero_configuration gives every configurable joint 0 when it has no
\* limit or lower <= 0 <= upper and (lower + upper) / 2 otherwise, which lies
\* within the limit when lower <= upper.
C17_ZeroValues ==
    (last.op = "zero_configuration") =>
        /\ last.outcome = "ok"
        /\ LET cfg == last.path[1]
           IN  /\ Range(cfg.names) =
                     {jointObj[j].name :
                         j \in {k \in Range(joints) : jointObj[k].type # "fixed"}}
               /\ Len(cfg.values) = Len(cfg.names)
               /\ \A i \in 1..Len(cfg.names) :
                     LET limit == JointNamed(cfg.names[i]).limit
                         v == cfg.values[i]
                     IN  /\ (limit = <<>> \/ (limit[1] <= 0 /\ 0 <= limit[2]))
                               => v = 0
                         /\ (limit # <<>> /\ ~(limit[1] <= 0 /\ 0 <= limit[2]))
                               => 2 * v = limit[1] + limit[2]
                         /\ (limit # <<>> /\ limit[1] <= limit[2])
                               => (limit[1] <= v /\ v <= limit[2])

\* limit [1, 2] gives 1.5, limit [-1, 1] gives 0, limit [-2, -1] gives -1.5
C17_Witness ==
    /\ last.op = "zero_configuration"
    /\ LET cfg == last.path[1]
       IN  \E i, k, l \in 1..Len(cfg.names) :
              /\ JointNamed(cfg.names[i]).limit = <<10, 20>> /\ cfg.values[i] = 15
              /\ JointNamed(cfg.names[k]).limit = <<-10, 10>> /\ cfg.values[k] = 0
              /\ JointNamed(cfg.names[l]).limit = <<-20, -10>> /\ cfg.values[l] = -15

Configured == last.op \in {"zero_configuration", "random_configuration"}

\* position i of values, types and names is about one configurable joint
Aligned(cfg) ==
    /\ Len(cfg.values) = Len(cfg.names)
    /\ Len(cfg.types) = Len(cfg.names)
    /\ \A i \in 1..Len(cfg.names) :
          LET j == JointNamed(cfg.names[i])
          IN  /\ cfg.types[i] = j.type
              /\ j.type # "fixed"
              /\ IF j.limit = <<>> THEN cfg.values[i] = 0
                 ELSE \/ 2 * cfg.values[i] = j.limit[1] + j.limit[2]
                      \/ cfg.values[i] \in {0, j.limit[1]}

RECURSIVE DepthFirst(_, _, _)
\* the joint names below the link of the name n, each joint followed by the
\* joints below its child before its next sibling, by the joint list
DepthFirst(n, i, fuel) ==
    LET cj == find_children_joints(joints, jointObj, n)
    IN  IF i > Len(cj) \/ fuel = 0 THEN <<>>
        ELSE (<<jointObj[cj[i]].name>> \o DepthFirst(jointObj[cj[i]].child, 1, fuel - 1))
             \o DepthFirst(n, i + 1, fuel)

RECURSIVE SiblingsFirst(_, _, _)
\* the joint names below the link of the name n: its child joints in
\* declaration order, then for each of them in turn the same of its child
SiblingsFirst(n, i, fuel) ==
    LET cj == find_children_joints(joints, jointObj, n)
    IN  IF fuel = 0 THEN <<>>
        ELSE IF i = 0
        THEN [k \in 1..Len(cj) |-> jointObj[cj[k]].name] \o SiblingsFirst(n, 1, fuel)
        ELSE IF i > Len(cj) THEN <<>>
        ELSE SiblingsFirst(jointObj[cj[i]].child, 0, fuel - 1)
             \o SiblingsFirst(n, i + 1, fuel)

Configurable(names) == SelectSeq(names, LAMBDA n : JointNamed(n).type # "fixed")

\* C18 as stated: zero_configuration and random_configuration return aligned
\* values, types and names, the joints in depth-first order from the root.
C18_DepthFirstOrder ==
    Configured =>
        /\ last.outcome = "ok"
        /\ Aligned(last.path[1])
        /\ last.path[1].names =
              Configurable(DepthFirst(linkObj[root].name, 1, Len(links) + 1))

\* C18 amended: they return aligned values, types and names, the joints in the
\* order of iter_joints: the child joints of a link in declaration order, then
\* for each of them in turn the joints below its child link in the same order.
C18_AlignedSiblingsFirst ==
    Configured =>
        /\ last.outcome = "ok"
        /\ Aligned(last.path[1])
        /\ last.path[1].names =
              Configurable(SiblingsFirst(linkObj[root].name, 0, Len(links) + 1))

C18_Witness ==
    /\ last.op = "random_configuration"
    /\ Len(last.path[1].names) = 3
    /\ last.path[1].names # DepthFirst(linkObj[root].name, 1, Len(links) + 1)
    /\ \E i \in 1..3 : last.path[1].values[i] # 0

RECURSIVE Product(_)
\* the product of the numbers of q
Product(q) == IF q = <<>> THEN One ELSE RatMul(q[1], Product(Tail(q)))

\* C19: after whole-model calls scale(f1), ..., scale(fk) every joint was given
\* the multipliers f1 / 1, f2 / f1, ..., fk / f(k-1), once each, their product
\* is fk, and the recorded scale factor is fk.
C19_ScaleIsRelative ==
    (last.op = "scale") =>
        /\ last.outcome = "ok"
        /\ _scale_factor = Last(scales)
        /\ \A j \in Range(joints) :
              /\ jointObj[j].scaled =
                    [i \in 1..Len(scales) |->
                        RatDiv(scales[i], IF i = 1 THEN One ELSE scales[i - 1])]
              /\ Product(jointObj[j].scaled) = Last(scales)

C19_Witness ==
    /\ last.op = "scale"
    /\ scales = <<Rat(3, 1), Rat(2, 1)>>
    /\ Len(joints) = 3
    /\ \E l \in Range(links) : Len(linkObj[l].joints) = 2

\* C20: iter_links yields every link of the link list exactly once, the root
\* first.
C20_IterLinksVisitsAll ==
    (last.op = "iter_links") =>
        /\ last.outcome = "ok"
        /\ Len(last.path) = Len(links)
        /\ last.path[1] = root
        /\ Range(last.path) = Range(links)

C20_Witness ==
    /\ last.op = "iter_links"
    /\ Len(last.path) = 4
    /\ \E l \in Range(links) : Len(linkObj[l].joints) = 2
    /\ last.path[1] = 1 /\ last.path[2] # 2

\* ---------------------------------------------------------------- adding
\* A model that is only added to, with any Links given to add_joint, and that
\* is queried, traversed and scaled at any time, any number of times.
AddJointNames == JointNames

ChainStarts == {NoName, "a"}

ChainEnds == {NoName, "c"}

OnlyAddLink == \E name \in LinkNames :
    /\ ~LinkNameUsed(Cur, name)
    /\ AddLinkUpTo(name, MaxAddLinks)

OnlyAddJoint == \E name \in AddJointNames, p \in LinkRefs, c \in LinkRefs :
    /\ ~JointNameUsed(Cur, name)
    /\ AddJointUpTo(name, TypeOf(name), p, c, MaxAddJoints)

AddChain == \E start \in ChainStarts, end \in ChainEnds : IterChain(start, end)

AddLinkChain == \E start \in ChainStarts, end \in ChainEnds :
    IterLinkChain(start, end)

AddJointChain == \E start \in ChainStarts, end \in ChainEnds :
    IterJointChain(start, end)

AddScale ==
    /\ Len(scales) < MaxAddScales
    /\ Scale(Rat(Max(ScaleFactors), 1))

NextAdd ==
    \/ OnlyAddLink
    \/ OnlyAddJoint
    \/ AddChain
    \/ AddLinkChain
    \/ AddJointChain
    \/ Traverse
    \/ AddScale

SpecAdd == Init /\ [][NextAdd]_vars

\* ---- claims about queries and traversals (SpecAdd)
ReadOps == Queries \cup {"iter_link_chain", "iter_joint_chain"}

\* the result recorded of the last query is one the query has on the model
\* as it is now
ResultOnModel ==
    CASE last.op = "iter_chain" ->
            Outcome(last.outcome, last.path) \in iter_chain(Cur, last.name, last.arg)
      [] last.op = "iter_link_chain" ->
            Outcome(last.outcome, last.path) \in iter_link_chain(Cur, last.name, last.arg)
      [] last.op = "iter_joint_chain" ->
            Outcome(last.outcome, last.path) \in iter_joint_chain(Cur, last.name, last.arg)
      [] last.op = "iter_links" ->
            /\ last.outcome = Ended(iter_links(Cur))
            /\ last.path = iter_links(Cur).val
      [] last.op = "iter_joints" ->
            /\ last.outcome = Ended(iter_joints(Cur))
            /\ last.path = iter_joints(Cur).val
      [] last.op = "compute_transformations" ->
            LET r == compute_transformations(Cur, last.path[1].joint_state, last.p,
                                             Identity, Fuel2(Cur))
            IN  /\ last.outcome = Ended(r)
                /\ last.path[1].result = r.val
      [] OTHER -> TRUE

\* C22: iter_chain, iter_link_chain, iter_joint_chain, iter_links, iter_joints
\* and compute_transformations leave link list, joint list, adjacency, lookups,
\* back-references, root and scale factor as they were, so that the result of
\* a query is the one it has on the model whatever queries ran before it.
C22_QueriesChangeNothing ==
    /\ [][last'.op \in ReadOps => UNCHANGED model]_vars
    /\ []ResultOnModel

C22_Witness ==
    /\ last.op = "iter_joint_chain" /\ last.outcome = "path"
    /\ Len(last.path) = 2
    /\ Len(links) = 3
    /\ scales # <<>>

\* the last call was one of the recursive traversals, add_joint with its
\* _create included
Traversed ==
    last.op \in {"add_link", "add_joint", "iter_links", "iter_joints",
                 "compute_transformations", "scale"}

\* the traversal returned within the recursion depth of a tree, and yielded
\* no Link and no Joint twice
EndedInTree ==
    /\ last.outcome # "RecursionError"
    /\ last.op \in {"iter_links", "iter_joints"} => NoDuplicate(last.path)

\* C23 as stated: on every model add_link and add_joint calls lead to,
\* iter_links, iter_joints, compute_transformations, scale and the _create of
\* add_joint end within the depth of the tree, visiting no link twice.
C23_TraversalsEnd == Traversed => EndedInTree

\* C23 amended: they do when every add_joint was given a child link without
\* parent joint that is neither the parent link nor above it.
C23_TraversalsEndWhenAttached == (clean /\ Traversed) => EndedInTree

C23_Witness ==
    /\ clean
    /\ last.op = "iter_links" /\ last.outcome = "ok"
    /\ Len(last.path) = 3
    /\ \E l \in Range(links) : linkObj[l].parent_joint # None /\ linkObj[l].joints # <<>>

\* ---- claims about remove_joint (Spec)
\* the last call was remove_joint(n) and n named a joint of the joint list
\* when it was made (an action-level formula: read in a step)
RemovedPresent ==
    /\ last'.op = "remove_joint"
    /\ last'.name \in Range(JointNamesOf(jointObj, joints))

\* what C21 says of a step that is remove_joint(n): joint list, parent link's
\* child-joint list and adjacency entry are without n, the entries of n and
\* the lookup entry of its child link are gone, root, link list and the other
\* joints' entries are as before
RemovedCleanly ==
    LET n == last'.name
        j == CHOOSE k \in Range(joints) : jointObj[k].name = n
    IN  /\ last'.outcome = "ok"
        /\ n \notin Range(JointNamesOf(jointObj', joints'))
        /\ \A l \in Range(links') :
              /\ n \notin Range(JointNamesOf(jointObj', linkObj'[l].joints))
              /\ (linkObj'[l].name = jointObj[j].parent
                    /\ linkObj'[l].name \in DOMAIN _adjacency')
                  => n \notin Range(_adjacency'[linkObj'[l].name])
        /\ n \notin DOMAIN _adjacency'
        /\ n \notin DOMAIN _joints'
        /\ jointObj[j].child \notin DOMAIN _links'
        /\ root' = root
        /\ links' = links
        /\ jointObj' = jointObj
        /\ \A k \in Range(JointNamesOf(jointObj, joints)) \ {n} :
              /\ k \in DOMAIN _joints => (k \in DOMAIN _joints' /\ _joints'[k] = _joints[k])
              /\ (k \in DOMAIN _adjacency /\ k # jointObj[j].parent)
                    => (k \in DOMAIN _adjacency' /\ _adjacency'[k] = _adjacency[k])

\* no link was ever taken out of the link list
NoLinkRemoved == Len(links) = Len(linkObj)

\* C21 as stated: remove_joint(n) for a joint n of the joint list removes n
\* from the joint list, from its parent link's child-joint list and adjacency
\* entry, deletes the adjacency and lookup entries of n and the lookup entry of
\* its child link, and leaves root, link list and the other joints' entries
\* (read on the models no link was removed from).
C21_RemoveJointEffect ==
    [][(RemovedPresent /\ NoLinkRemoved) => RemovedCleanly]_vars

\* C24: remove_joint is all-or-nothing: when no link was removed before, a
\* call that raises leaves joint list, lookups, adjacency and child-joint
\* lists as they were.
C24_RemoveJointAllOrNothing ==
    [][(last'.op = "remove_joint" /\ NoLinkRemoved /\ last'.outcome # "ok")
        => UNCHANGED <<joints, _links, _joints, _adjacency, linkObj>>]_vars

====
